---- MODULE Spec2Model ----
(***************************************************************************)
(* Model of the Replikas data layer: src/src/model/Utilitaire.ts (dateDiff, *)
(* addCookie, getBuyerBySession, class Article) and its sibling utility     *)
(* module src/unnamed/part_000 (dateDiff, addCookie, getAccountBySession,   *)
(* getBuyerBySession, getCompanyBySession).                                 *)
(*                                                                          *)
(* Strings that the code only copies are TLA+ strings; strings that the     *)
(* code scans (the cookie header) are sequences of one-character strings.   *)
(* Tables are sequences of rows in heap order; a SELECT without ORDER BY    *)
(* returns the matching rows in that order.                                 *)
(***************************************************************************)
EXTENDS Integers, Sequences, FiniteSets, TLC

VARIABLES
    date1, date2, diff,            \* dateDiff: its two arguments (ms), its result
    headers, cookie,               \* addCookie: response headers, last cookie argument
    reqCookie, session,            \* session helpers: request cookie header, outcome
    movie, article, article_image, \* tables written by Article.create / delete
    art_seq,                       \* the serial sequence behind article.art_id
    pc, loc,                       \* per call: position between awaits, local variables
    bid, mostBidsResult,           \* table bid, result of Article.mostBids
    searchRows, searchResult       \* joined rows of getBySearch's FROM, its result

vars == <<date1, date2, diff, headers, cookie, reqCookie, session,
          movie, article, article_image, art_seq, pc, loc,
          bid, mostBidsResult, searchRows, searchResult>>

dateVars    == <<date1, date2, diff>>
cookieVars  == <<headers, cookie>>
sessionVars == <<reqCookie, session>>
dbVars      == <<movie, article, article_image, art_seq, pc, loc>>
bidVars     == <<bid, mostBidsResult>>
searchVars  == <<searchRows, searchResult>>

\* The value of a variable that holds nothing yet (undefined / not called).
None == [none |-> TRUE]

(***************************************************************************)
(* JavaScript arithmetic                                                   *)
(***************************************************************************)

\* a % b of JavaScript for b > 0: the remainder takes the sign of the dividend.
JsRem(a, b) == IF a >= 0 THEN a % b ELSE -((-a) % b)

\* Math.floor(a / b) for b > 0.
MathFloorDiv(a, b) == a \div b

(***************************************************************************)
(* dateDiff                                                                *)
(***************************************************************************)

\* A plausible slip: hours extracted modulo 60 instead of 24.
dateDiffHourMod60(d1, d2) ==
    LET t0   == MathFloorDiv(d1 - d2, 1000)
        sec  == JsRem(t0, 60)
        t1   == MathFloorDiv(t0 - sec, 60)
        min  == JsRem(t1, 60)
        t2   == MathFloorDiv(t1 - min, 60)
        hour == JsRem(t2, 60)
        t3   == MathFloorDiv(t2 - hour, 24)
    IN  [day |-> t3, hour |-> hour, min |-> min, sec |-> sec]

dateDiff(d1, d2) ==
    LET t0   == MathFloorDiv(d1 - d2, 1000)
        sec  == JsRem(t0, 60)
        t1   == MathFloorDiv(t0 - sec, 60)
        min  == JsRem(t1, 60)
        t2   == MathFloorDiv(t1 - min, 60)
        hour == JsRem(t2, 24)
        t3   == MathFloorDiv(t2 - hour, 24)
    IN  [day |-> t3, hour |-> hour, min |-> min, sec |-> sec]

\* Bound on the number of whole days between the two instants.
MaxDays == 2

\* The differences date1 - date2 tried, in milliseconds, of both signs: every
\* combination of the extreme values of each unit and of the sub-second part.
DateDeltas ==
    { sgn * ((((d * 24 + h) * 60 + m) * 60 + s) * 1000 + ms) :
        sgn \in {1, -1}, d \in 0..MaxDays, h \in {0, 1, 23},
        m \in {0, 59}, s \in {0, 1, 59}, ms \in {0, 1, 999} }

DateOrigins == {0, 999, 86400000}

\* A caller evaluates dateDiff(date1, date2).
DateDiffCall ==
    /\ diff = None
    /\ diff' = dateDiff(date1, date2)
    /\ UNCHANGED <<date1, date2>>
    /\ UNCHANGED <<cookieVars, sessionVars, dbVars, bidVars, searchVars>>

(***************************************************************************)
(* addCookie                                                               *)
(***************************************************************************)

\* An optional field of the cookie description is the empty set (absent) or
\* the singleton of its value.
Val(opt) == CHOOSE v \in opt : TRUE

\* Truthiness of an optional number, boolean, string, as the ?: tests see it.
TruthyNum(opt)  == \E v \in opt : v # 0
TruthyBool(opt) == \E v \in opt : v = TRUE
TruthyStr(opt)  == \E v \in opt : v # ""

\* The header value addCookie builds.
cookieVal(c) ==
    LET v0 == c.name \o "=" \o c.value \o ";"
        v1 == v0 \o (IF TruthyNum(c.maxAge)
                     THEN " Max-Age=" \o ToString(Val(c.maxAge)) \o ";" ELSE "")
        v2 == v1 \o (IF TruthyBool(c.secure) THEN " Secure;" ELSE "")
        v3 == v2 \o (IF TruthyStr(c.path)
                     THEN " Path=" \o Val(c.path) \o ";" ELSE "")
    IN  v3

\* headers.append(name, value)
HeadersAppend(h, name, value) == Append(h, [name |-> name, value |-> value])

\* Bound on the number of entries of the header collection.
MaxHeaders == 2

Cookies ==
    [name : {"sid"}, value : {"abc", ""},
     maxAge : {{}, {0}, {3600}}, secure : {{}, {TRUE}, {FALSE}},
     path : {{}, {""}, {"/"}}]

\* addCookie(headers, c)
AddCookie(c) ==
    /\ Len(headers) < MaxHeaders
    /\ headers' = HeadersAppend(headers, "Set-Cookie", cookieVal(c))
    /\ cookie' = c
    /\ UNCHANGED <<dateVars, sessionVars, dbVars, bidVars, searchVars>>

(***************************************************************************)
(* getAccountBySession, getBuyerBySession, getCompanyBySession             *)
(***************************************************************************)

TokenEq == <<"t", "o", "k", "e", "n", "=">>

SetMin(S) == CHOOSE x \in S : \A y \in S : x <= y

\* String.prototype.endsWith(';')
EndsWithSemi(s) == Len(s) > 0 /\ s[Len(s)] = ";"

\* s.match(/token=([^;]*);/): null, or the leftmost match with its group 1.
\* [^;]* cannot cross a ';', so group 1 ends at the first ';' after "token=".
MatchToken(s) ==
    LET starts == { i \in 1..Len(s) :
                      /\ i + 5 <= Len(s)
                      /\ SubSeq(s, i, i + 5) = TokenEq
                      /\ \E j \in (i + 6)..Len(s) : s[j] = ";" }
    IN  IF starts = {} THEN [matched |-> FALSE, group1 |-> <<>>]
        ELSE LET i == SetMin(starts)
                 j == SetMin({ k \in (i + 6)..Len(s) : s[k] = ";" })
             IN  [matched |-> TRUE, group1 |-> SubSeq(s, i + 6, j - 1)]

\* The accounts the session lookups run against: one buyer, one company, and
\* two accounts sharing a session token.
AccountTable ==
    { [id |-> 1, session |-> <<"a">>, kind |-> "buyer"],
      [id |-> 2, session |-> <<"b">>, kind |-> "company"],
      [id |-> 3, session |-> <<"a", "b">>, kind |-> "buyer"],
      [id |-> 4, session |-> <<"a", "b">>, kind |-> "company"] }

\* Account.getBySession(token)
AccountGetBySession(token) ==
    LET found == { a \in AccountTable : a.session = token }
    IN  IF found = {} THEN [threw |-> "SessionTokenInvalideError", value |-> None]
        ELSE IF Cardinality(found) > 1
        THEN [threw |-> "CaCestVraimentPasDeBolError", value |-> None]
        ELSE [threw |-> "none", value |-> CHOOSE a \in found : TRUE]

\* Buyer.getFromAccount / Company.getFromAccount: narrowing to one kind.
GetFromAccount(kind, account) ==
    IF account.kind = kind THEN [threw |-> "none", value |-> account]
    ELSE [threw |-> "AccountTypeMismatch", value |-> None]

\* Buyer.getBySession(token): the lookup, then the narrowing to a buyer.
BuyerGetBySession(token) ==
    LET r == AccountGetBySession(token)
    IN  IF r.threw # "none" THEN r ELSE GetFromAccount("buyer", r.value)

\* An outcome: what was thrown ("none": returned value), and the tokens the
\* session lookup was called with.
Outcome(threw, value, lookups) ==
    [threw |-> threw, value |-> value, lookups |-> lookups]

\* part_000: getAccountBySession(headers), h the result of headers.get('cookie').
getAccountBySession(h) ==
    IF h.present /\ h.value # <<>>
    THEN LET s     == IF EndsWithSemi(h.value) THEN h.value ELSE h.value \o <<";">>
             token == MatchToken(s)
         IN  IF ~token.matched
             THEN \* token is null: reading token.length throws
                  Outcome("TypeError", None, <<>>)
             ELSE LET r == AccountGetBySession(token.group1)
                  IN  Outcome(r.threw, r.value, <<token.group1>>)
    ELSE Outcome("SessionTokenInvalideError", None, <<>>)

\* part_000: getBuyerBySession(headers)
getBuyerBySession(h) ==
    LET a == getAccountBySession(h)
    IN  IF a.threw # "none" THEN a
        ELSE LET n == GetFromAccount("buyer", a.value)
             IN  Outcome(n.threw, n.value, a.lookups)

\* part_000: getCompanyBySession(headers)
getCompanyBySession(h) ==
    LET a == getAccountBySession(h)
    IN  IF a.threw # "none" THEN a
        ELSE LET n == GetFromAccount("company", a.value)
             IN  Outcome(n.threw, n.value, a.lookups)

\* Utilitaire.ts: getBuyerBySession(headers), which calls Buyer.getBySession.
getBuyerBySessionDirect(h) ==
    IF h.present /\ h.value # <<>>
    THEN LET s     == IF EndsWithSemi(h.value) THEN h.value ELSE h.value \o <<";">>
             token == MatchToken(s)
         IN  IF ~token.matched
             THEN Outcome("TypeError", None, <<>>)
             ELSE LET r == BuyerGetBySession(token.group1)
                  IN  Outcome(r.threw, r.value, <<token.group1>>)
    ELSE Outcome("SessionTokenInvalideError", None, <<>>)

\* Cookie keys and values the request headers are built from.
CookieKeys   == { <<"t", "o", "k", "e", "n">>, <<"x", "t", "o", "k", "e", "n">>, <<"o">> }
CookieValues == { <<>>, <<"a">>, <<"b">>, <<"a", "b">> }

\* Bound on the number of key=value entries of a request's cookie header.
MaxEntries == 2

RECURSIVE JoinEntries(_)
JoinEntries(es) ==
    IF es = <<>> THEN <<>>
    ELSE LET e == es[1].key \o <<"=">> \o es[1].value
         IN  IF Len(es) = 1 THEN e ELSE e \o <<";">> \o JoinEntries(Tail(es))

SeqsUpTo(S, n) == UNION { [1..k -> S] : k \in 0..n }

\* headers.get('cookie'): absent, or a ';'-separated list with or without
\* a trailing ';'.
RequestCookies ==
    { [present |-> FALSE, value |-> <<>>] } \cup
    { [present |-> TRUE, value |-> JoinEntries(es) \o trail] :
        es \in SeqsUpTo([key : CookieKeys, value : CookieValues], MaxEntries),
        trail \in { <<>>, <<";">> } }

SessionCall(fn, r) ==
    /\ session = None
    /\ session' = [fn |-> fn, threw |-> r.threw, value |-> r.value,
                   lookups |-> r.lookups]
    /\ UNCHANGED reqCookie
    /\ UNCHANGED <<dateVars, cookieVars, dbVars, bidVars, searchVars>>

\* One request resolved by each of the four entry points.
GetAccountBySession == SessionCall("getAccountBySession", getAccountBySession(reqCookie))

GetBuyerBySession == SessionCall("getBuyerBySession", getBuyerBySession(reqCookie))

GetCompanyBySession == SessionCall("getCompanyBySession", getCompanyBySession(reqCookie))

GetBuyerBySessionDirect ==
    SessionCall("getBuyerBySessionDirect", getBuyerBySessionDirect(reqCookie))

(***************************************************************************)
(* class Article: the tables, get, create, delete                          *)
(*                                                                         *)
(* Every await is a point where other calls run, so each call is a chain   *)
(* of steps, one per database round trip.  Statements sent through the     *)
(* pool handle (database`...`) commit on their own as soon as they run.    *)
(***************************************************************************)

Creators == {"c1", "c2"}
Getter   == "g"
Deleter  == "d"
Procs    == Creators \cup {Getter, Deleter}

MovieIds == {10, 20}
ImgPaths == {"a.jpg", "b.jpg"}

\* Bound on the number of image paths passed to one create.
MaxImgs == 2

\* The ids a get may ask for: those create can hand out, and one more.
ArticleIds == 1..(Cardinality(Creators) + 1)

\* TMDB.getMovie(id).title
TmdbTitle(m) == IF m = 10 THEN "Alien" ELSE "Brazil"

\* SELECT * FROM <table> WHERE art_id = id
WhereArtId(table, id) == SelectSeq(table, LAMBDA r : r.art_id = id)

\* DELETE FROM <table> WHERE art_id = id
DeleteArtId(table, id) == SelectSeq(table, LAMBDA r : r.art_id # id)

\* The images query of getFromResult without its WHERE clause.
ImagesOfAll(table, id) == table

\* The images query of getFromResult.
ImagesOf(table, id) == WhereArtId(table, id)

\* Article.getFromResult(result): the row's fields, then one img_path per row
\* of the images query, in the order the query returned them.
getFromResult(row, table) ==
    LET imgs == ImagesOf(table, row.art_id)
    IN  [id |-> row.art_id, tmdb_movie_id |-> row.m_id,
         img_paths |-> [i \in 1..Len(imgs) |-> imgs[i].img_path]]

\* INSERT INTO movie ... ON CONFLICT DO NOTHING, without the ON CONFLICT.
InsertMovieAlways(table, m, title) == Append(table, [m_id |-> m, m_title |-> title])

\* INSERT INTO movie (m_id, m_title) VALUES (m, title) ON CONFLICT DO NOTHING
InsertMovieRow(table, m, title) ==
    IF \E i \in 1..Len(table) : table[i].m_id = m THEN table
    ELSE Append(table, [m_id |-> m, m_title |-> title])

Goto(p, label) == pc' = [pc EXCEPT ![p] = label]

NoDb == UNCHANGED <<movie, article, article_image, art_seq>>
NotDb == UNCHANGED <<dateVars, cookieVars, sessionVars, bidVars, searchVars>>

\* ---- Article.create ----

\* create(..., img_paths, tmdb_movie_id, ...) is called: TMDB.getMovie is awaited.
CreateCall(p, imgs, m) ==
    /\ pc[p] = "idle"
    /\ loc' = [loc EXCEPT ![p] = [img_paths |-> imgs, m_id |-> m, title |-> "",
                                  art_id |-> 0, movie_count |-> 0, i |-> 1,
                                  threw |-> "none", result |-> None]]
    /\ Goto(p, "get_movie")
    /\ NoDb /\ NotDb

\* TMDB.getMovie resolves; database.begin opens its transaction and runs the callback.
TmdbReturns(p) ==
    /\ pc[p] = "get_movie"
    /\ loc' = [loc EXCEPT ![p].title = TmdbTitle(loc[p].m_id)]
    /\ Goto(p, "insert_movie")
    /\ NoDb /\ NotDb

\* TMDB.getMovie rejects: create throws before any statement.
TmdbFails(p) ==
    /\ pc[p] = "get_movie"
    /\ loc' = [loc EXCEPT ![p].threw = "TMDBError"]
    /\ Goto(p, "failed")
    /\ NoDb /\ NotDb

\* line 181: the movie upsert, sent through database, not through the callback's sql.
InsertMovie(p) ==
    /\ pc[p] = "insert_movie"
    /\ movie' = InsertMovieRow(movie, loc[p].m_id, loc[p].title)
    /\ loc' = [loc EXCEPT ![p].movie_count = Len(movie') - Len(movie)]
    /\ Goto(p, "insert_article")
    /\ UNCHANGED <<article, article_image, art_seq>> /\ NotDb

\* line 184: the article insert, RETURNING the row with its new art_id.
InsertArticle(p) ==
    /\ pc[p] = "insert_article"
    /\ article' = Append(article, [art_id |-> art_seq, m_id |-> loc[p].m_id])
    /\ art_seq' = art_seq + 1
    /\ loc' = [loc EXCEPT ![p].art_id = art_seq]
    /\ Goto(p, IF loc[p].img_paths = <<>> THEN "commit" ELSE "insert_image")
    /\ UNCHANGED <<movie, article_image>> /\ NotDb

\* line 187: one turn of the loop over img_paths.
InsertImage(p) ==
    /\ pc[p] = "insert_image"
    /\ article_image' = Append(article_image,
                               [art_id |-> loc[p].art_id,
                                img_path |-> loc[p].img_paths[loc[p].i]])
    /\ loc' = [loc EXCEPT ![p].i = @ + 1]
    /\ Goto(p, IF loc[p].i = Len(loc[p].img_paths) THEN "commit" ELSE "insert_image")
    /\ UNCHANGED <<movie, article, art_seq>> /\ NotDb

\* line 192: the callback returns and begin commits its transaction, which
\* holds no statement.
Commit(p) ==
    /\ pc[p] = "commit"
    /\ Goto(p, "get_from_result")
    /\ UNCHANGED loc /\ NoDb /\ NotDb

\* line 195: getFromResult(result).
CreateReturn(p) ==
    /\ pc[p] = "get_from_result"
    /\ loc' = [loc EXCEPT ![p].result =
                  getFromResult([art_id |-> loc[p].art_id, m_id |-> loc[p].m_id],
                                article_image)]
    /\ Goto(p, "done")
    /\ NoDb /\ NotDb

\* A statement of the callback fails, or the call is interrupted: the callback
\* throws and begin rolls its transaction back.  The transaction holds none of
\* the statements already run through database, so the tables stay as they are.
CreateFails(p) ==
    /\ pc[p] \in {"insert_movie", "insert_article", "insert_image", "commit"}
    /\ loc' = [loc EXCEPT ![p].threw = "PostgresError"]
    /\ Goto(p, "failed")
    /\ NoDb /\ NotDb

\* ---- Article.get ----

GetCall(id) ==
    /\ pc[Getter] = "idle"
    /\ loc' = [loc EXCEPT ![Getter] = [id |-> id, row |-> None,
                                       threw |-> "none", result |-> None]]
    /\ Goto(Getter, "get_query")
    /\ NoDb /\ NotDb

\* line 145: the article query; no row: ArticleInexistantError.
GetQuery ==
    /\ pc[Getter] = "get_query"
    /\ LET result == WhereArtId(article, loc[Getter].id)
       IN  IF Len(result) = 0
           THEN /\ loc' = [loc EXCEPT ![Getter].threw = "ArticleInexistantError"]
                /\ Goto(Getter, "done")
           ELSE /\ loc' = [loc EXCEPT ![Getter].row = result[1]]
                /\ Goto(Getter, "get_images")
    /\ NoDb /\ NotDb

\* line 150: getFromResult(result[0]) with its images query.
GetReturn ==
    /\ pc[Getter] = "get_images"
    /\ loc' = [loc EXCEPT ![Getter].result = getFromResult(loc[Getter].row, article_image)]
    /\ Goto(Getter, "done")
    /\ NoDb /\ NotDb

\* ---- Article.delete ----

\* delete() on an Article instance: its id is that of a row some query returned.
DeleteCall(id) ==
    /\ pc[Deleter] = "idle"
    /\ Len(WhereArtId(article, id)) > 0
    /\ loc' = [loc EXCEPT ![Deleter] = [id |-> id]]
    /\ Goto(Deleter, "delete_article")
    /\ NoDb /\ NotDb

\* delete() with its two statements swapped: the images go first.
deleteImagesFirst(art, img, id) == [article |-> art, article_image |-> DeleteArtId(img, id)]

\* The statement delete() sends first.
deleteFirst(art, img, id) == [article |-> DeleteArtId(art, id), article_image |-> img]

\* The statement delete() sends second.
deleteSecond(art, img, id) == [article |-> art, article_image |-> DeleteArtId(img, id)]

\* line 323
DeleteArticle ==
    /\ pc[Deleter] = "delete_article"
    /\ LET t == deleteFirst(article, article_image, loc[Deleter].id)
       IN  article' = t.article /\ article_image' = t.article_image
    /\ Goto(Deleter, "delete_images")
    /\ UNCHANGED <<movie, art_seq, loc>> /\ NotDb

\* line 324
DeleteImages ==
    /\ pc[Deleter] = "delete_images"
    /\ LET t == deleteSecond(article, article_image, loc[Deleter].id)
       IN  article' = t.article /\ article_image' = t.article_image
    /\ Goto(Deleter, "done")
    /\ UNCHANGED <<movie, art_seq, loc>> /\ NotDb

\* A statement of delete() fails or the call is interrupted before it.
DeleteFails ==
    /\ pc[Deleter] \in {"delete_article", "delete_images"}
    /\ Goto(Deleter, "failed")
    /\ UNCHANGED loc /\ NoDb /\ NotDb

(***************************************************************************)
(* Article.getAll, Article.mostBids, Article.getBySearch                   *)
(***************************************************************************)

\* The injective sequences over all of S: the orders a query may return S in.
Perms(S) ==
    { f \in [1..Cardinality(S) -> S] :
        \A i, j \in 1..Cardinality(S) : f[i] = f[j] => i = j }

\* LIMIT limit OFFSET offset applied to a sequence.
LimitOffset(seq, limit, offset) ==
    SubSeq(seq, offset + 1, IF offset + limit < Len(seq) THEN offset + limit ELSE Len(seq))

\* for (const article of result) articles.push(await this.getFromResult(article))
MapFromResult(rows, imgTable) ==
    [i \in 1..Len(rows) |-> getFromResult(rows[i], imgTable)]

\* Article.getAll(): SELECT * FROM article
getAll(art, imgTable) == MapFromResult(art, imgTable)

\* ---- mostBids ----

\* count(art_id) of one group of bid
BidCount(bids, id) == Len(WhereArtId(bids, id))

\* The orders SELECT art_id FROM bid GROUP BY art_id ORDER BY count(art_id) DESC
\* may produce: groups with equal counts come in any order.
BidRankings(bids) ==
    LET groups == { bids[i].art_id : i \in 1..Len(bids) }
    IN  { f \in Perms(groups) :
            \A i \in 1..(Cardinality(groups) - 1) :
                BidCount(bids, f[i]) >= BidCount(bids, f[i + 1]) }

\* params.limit || 8
DefaultLimit == 8

OrElse(v, d) == IF v = 0 THEN d ELSE v

\* The results mostBids(params) may return: the outer SELECT has no ORDER BY,
\* its rows come in the heap order of article.
mostBids(art, bids, imgTable, params) ==
    { MapFromResult(
          SelectSeq(art, LAMBDA a :
              \E k \in 1..Len(LimitOffset(ranking, OrElse(params.limit, DefaultLimit),
                                          OrElse(params.offset, 0))) :
                  LimitOffset(ranking, OrElse(params.limit, DefaultLimit),
                              OrElse(params.offset, 0))[k] = a.art_id),
          imgTable) : ranking \in BidRankings(bids) }

\* Bounds of the mostBids inputs: articles in the table, bid rows per article.
NumBidArticles == 3
MaxBids == 2

BidParams == [limit : {0, 1, 2, 8}, offset : {0, 1, 2}]

RECURSIVE BidRows(_, _)
\* count[id] rows of bid for each article id from 1 to n
BidRows(count, n) ==
    IF n = 0 THEN <<>>
    ELSE BidRows(count, n - 1) \o [k \in 1..count[n] |-> [art_id |-> n]]

MostBids(params) ==
    /\ mostBidsResult = None
    /\ \E r \in mostBids(article, bid, article_image, params) :
          mostBidsResult' = [params |-> params, articles |-> r]
    /\ UNCHANGED bid
    /\ UNCHANGED <<dateVars, cookieVars, sessionVars, dbVars, searchVars>>

\* ---- getBySearch ----

\* NULLIF(v, 0): NULL is the empty set, a value its singleton.
NullIf0(v) == IF v = 0 THEN {} ELSE {v}

\* similarity > 0.08, similarities counted in hundredths
SimilarityThreshold == 8

\* One key of ORDER BY ... DESC: PostgreSQL sorts NULL as larger than every
\* value, so under DESC (NULLS FIRST by default) a NULL comes first.
DescCmp(a, b) ==
    IF a = {} /\ b = {} THEN 0
    ELSE IF a = {} THEN -1
    ELSE IF b = {} THEN 1
    ELSE IF Val(a) > Val(b) THEN -1
    ELSE IF Val(a) < Val(b) THEN 1
    ELSE 0

\* The select list's computed columns of one row of the FROM clause.
Ranked(r) ==
    [art_id |-> r.art_id, m_id |-> r.m_id,
     rank_name |-> NullIf0(r.ts_name),
     rank_description |-> NullIf0(r.ts_description),
     rank_movie_title |-> NullIf0(r.ts_movie_title),
     similarity |-> r.similarity, match |-> r.match]

\* ORDER BY rank_name DESC, rank_description DESC, rank_movie_title DESC,
\* similarity DESC: -1 if a sorts before b, 1 if after, 0 if the keys tie.
OrderCmp(a, b) ==
    LET c1 == DescCmp(a.rank_name, b.rank_name)
        c2 == DescCmp(a.rank_description, b.rank_description)
        c3 == DescCmp(a.rank_movie_title, b.rank_movie_title)
        c4 == DescCmp({a.similarity}, {b.similarity})
    IN  IF c1 # 0 THEN c1 ELSE IF c2 # 0 THEN c2 ELSE IF c3 # 0 THEN c3 ELSE c4

\* The results getBySearch(search, params) may return for search # '@all';
\* rows whose keys all tie come in any order.
getBySearch(rows, imgTable, params) ==
    LET kept == { i \in 1..Len(rows) :
                    rows[i].match \/ rows[i].similarity > SimilarityThreshold }
    IN  { MapFromResult(
              LimitOffset([k \in 1..Cardinality(kept) |-> Ranked(rows[f[k]])],
                          params.limit, OrElse(params.offset, 0)),
              imgTable) :
            f \in { g \in Perms(kept) :
                      \A k \in 1..(Cardinality(kept) - 1) :
                          OrderCmp(Ranked(rows[g[k]]), Ranked(rows[g[k + 1]])) <= 0 } }

\* Bound on the number of articles in the searched table.
NumSearchArticles == 2

SearchParams == [limit : {1, 2, 20}, offset : {0, 1}]

\* What the text-search functions may compute for one article and one search
\* text: ts_rank values (0: no lexeme in common), the trigram similarity in
\* hundredths, and whether document @@ query.
SearchColumns ==
    [ts_name : {0, 5}, ts_description : {0, 5}, ts_movie_title : {0, 5},
     similarity : {5, 8, 30}, match : BOOLEAN]

\* getBySearch(search, params) with search # '@all'
GetBySearch(params) ==
    /\ searchResult = None
    /\ \E r \in getBySearch(searchRows, article_image, params) :
          searchResult' = [search |-> "text", params |-> params, articles |-> r]
    /\ UNCHANGED searchRows
    /\ UNCHANGED <<dateVars, cookieVars, sessionVars, dbVars, bidVars>>

\* getBySearch('@all', params): getAll(), params ignored
GetBySearchAll(params) ==
    /\ searchResult = None
    /\ searchResult' = [search |-> "@all", params |-> params,
                        articles |-> getAll(article, article_image)]
    /\ UNCHANGED searchRows
    /\ UNCHANGED <<dateVars, cookieVars, sessionVars, dbVars, bidVars>>

(***************************************************************************)
(* Specifications                                                          *)
(***************************************************************************)

IdleDate    == date1 = 0 /\ date2 = 0 /\ diff = None
IdleCookie  == headers = <<>> /\ cookie = None
IdleSession == reqCookie = [present |-> FALSE, value |-> <<>>] /\ session = None
IdleTables  == movie = <<>> /\ article = <<>> /\ article_image = <<>> /\ art_seq = 1
IdleCalls   == pc = [p \in Procs |-> "idle"] /\ loc = [p \in Procs |-> None]
IdleBid     == bid = <<>> /\ mostBidsResult = None
IdleSearch  == searchRows = <<>> /\ searchResult = None

\* n articles of one movie already in the tables, each with one image.
Stocked(n) ==
    /\ movie = <<[m_id |-> 10, m_title |-> TmdbTitle(10)]>>
    /\ article = [i \in 1..n |-> [art_id |-> i, m_id |-> 10]]
    /\ article_image = [i \in 1..n |-> [art_id |-> i, img_path |-> "a.jpg"]]
    /\ art_seq = n + 1

\* dateDiff on every pair of instants of the bounded sets.
InitDate ==
    /\ date2 \in DateOrigins
    /\ date1 \in { date2 + d : d \in DateDeltas }
    /\ diff = None
    /\ IdleCookie /\ IdleSession /\ IdleTables /\ IdleCalls /\ IdleBid /\ IdleSearch

NextDate == DateDiffCall

SpecDate == InitDate /\ [][NextDate]_vars

\* addCookie called repeatedly on a response's headers.
InitCookie ==
    /\ headers \in { <<>>, <<[name |-> "Content-Type", value |-> "text/html"]>> }
    /\ cookie = None
    /\ IdleDate /\ IdleSession /\ IdleTables /\ IdleCalls /\ IdleBid /\ IdleSearch

NextCookie == \E c \in Cookies : AddCookie(c)

SpecCookie == InitCookie /\ [][NextCookie]_vars

\* One request resolved by one of the session helpers.
InitSession ==
    /\ reqCookie \in RequestCookies
    /\ session = None
    /\ IdleDate /\ IdleCookie /\ IdleTables /\ IdleCalls /\ IdleBid /\ IdleSearch

NextSession ==
    \/ GetAccountBySession
    \/ GetBuyerBySession
    \/ GetCompanyBySession
    \/ GetBuyerBySessionDirect

SpecSession == InitSession /\ [][NextSession]_vars

\* The steps of one create call.
CreateStep(p) ==
    \/ \E m \in MovieIds, imgs \in SeqsUpTo(ImgPaths, MaxImgs) : CreateCall(p, imgs, m)
    \/ TmdbReturns(p)
    \/ TmdbFails(p)
    \/ InsertMovie(p)
    \/ InsertArticle(p)
    \/ InsertImage(p)
    \/ Commit(p)
    \/ CreateReturn(p)
    \/ CreateFails(p)

\* Two creates running concurrently on empty tables.
InitCreate ==
    /\ IdleTables /\ IdleCalls
    /\ IdleDate /\ IdleCookie /\ IdleSession /\ IdleBid /\ IdleSearch

NextCreate == \E p \in Creators : CreateStep(p)

SpecCreate == InitCreate /\ [][NextCreate]_vars

\* One create, one get and one delete running concurrently on tables that
\* already hold an article.
InitDb ==
    /\ Stocked(1) /\ IdleCalls
    /\ IdleDate /\ IdleCookie /\ IdleSession /\ IdleBid /\ IdleSearch

NextDb ==
    \/ CreateStep("c1")
    \/ \E id \in ArticleIds : GetCall(id)
    \/ GetQuery
    \/ GetReturn
    \/ \E id \in ArticleIds : DeleteCall(id)
    \/ DeleteArticle
    \/ DeleteImages
    \/ DeleteFails

SpecDb == InitDb /\ [][NextDb]_vars

\* mostBids on a stocked article table with every distribution of bids.
InitBids ==
    /\ Stocked(NumBidArticles)
    /\ bid \in { BidRows(c, NumBidArticles) : c \in [1..NumBidArticles -> 0..MaxBids] }
    /\ mostBidsResult = None
    /\ IdleCalls /\ IdleDate /\ IdleCookie /\ IdleSession /\ IdleSearch

NextBids == \E params \in BidParams : MostBids(params)

SpecBids == InitBids /\ [][NextBids]_vars

\* getBySearch on a stocked article table, for every outcome of the
\* text-search functions on its rows.
InitSearch ==
    /\ Stocked(NumSearchArticles)
    /\ searchRows \in
          { [i \in 1..NumSearchArticles |->
                [art_id |-> i, m_id |-> 10,
                 ts_name |-> c[i].ts_name, ts_description |-> c[i].ts_description,
                 ts_movie_title |-> c[i].ts_movie_title,
                 similarity |-> c[i].similarity, match |-> c[i].match]] :
              c \in [1..NumSearchArticles -> SearchColumns] }
    /\ searchResult = None
    /\ IdleCalls /\ IdleDate /\ IdleCookie /\ IdleSession /\ IdleBid

NextSearch ==
    \/ \E params \in SearchParams : GetBySearch(params)
    \/ \E params \in SearchParams : GetBySearchAll(params)

SpecSearch == InitSearch /\ [][NextSearch]_vars

(***************************************************************************)
(* Properties                                                              *)
(***************************************************************************)

\* ---- helpers of the properties ----

\* The index of the first ch in s, 0 if there is none.
IndexOf(s, ch) ==
    IF \E i \in 1..Len(s) : s[i] = ch
    THEN SetMin({ i \in 1..Len(s) : s[i] = ch }) ELSE 0

RECURSIVE SplitSemi(_)
\* The ';'-separated entries of a cookie header.
SplitSemi(s) ==
    IF s = <<>> THEN <<>>
    ELSE LET i == IndexOf(s, ";")
         IN  IF i = 0 THEN <<s>>
             ELSE <<SubSeq(s, 1, i - 1)>> \o SplitSemi(SubSeq(s, i + 1, Len(s)))

EntryKey(e) ==
    LET i == IndexOf(e, "=") IN IF i = 0 THEN e ELSE SubSeq(e, 1, i - 1)

EntryValue(e) ==
    LET i == IndexOf(e, "=") IN IF i = 0 THEN <<>> ELSE SubSeq(e, i + 1, Len(e))

TokenKey == <<"t", "o", "k", "e", "n">>

\* The entries of the header whose key is exactly token and that carry a '='.
TokenEntries(s) ==
    SelectSeq(SplitSemi(s), LAMBDA e : EntryKey(e) = TokenKey /\ IndexOf(e, "=") # 0)

\* "token=" occurs somewhere in the header.
ContainsTokenEq(s) ==
    \E i \in 1..Len(s) : i + 5 <= Len(s) /\ SubSeq(s, i, i + 5) = TokenEq

RECURSIVE PathsOf(_, _)
\* The img_path of every row of the table with the given art_id, in row order.
PathsOf(table, id) ==
    IF table = <<>> THEN <<>>
    ELSE (IF Head(table).art_id = id THEN <<Head(table).img_path>> ELSE <<>>)
         \o PathsOf(Tail(table), id)

RowsWith(table, field, v) == { i \in 1..Len(table) : table[i][field] = v }

\* The creators whose call has begun, has run its article insert.
Started(p)      == pc[p] # "idle"
WroteArticle(p) == Started(p) /\ loc[p].art_id # 0

\* ---- C1 ----
\* C1: Article.create is all-or-nothing: once a create has failed (or was
\* interrupted), the movie, article and article_image tables hold no row
\* written by that call.
C1_CreateAllOrNothing ==
    \A p \in Creators :
        pc[p] = "failed" =>
            /\ loc[p].movie_count = 1 => RowsWith(movie, "m_id", loc[p].m_id) = {}
            /\ loc[p].art_id # 0 =>
                  /\ RowsWith(article, "art_id", loc[p].art_id) = {}
                  /\ RowsWith(article_image, "art_id", loc[p].art_id) = {}

\* ---- C2 ----
\* C2: when no session token can be extracted from the headers (no cookie
\* header, or one without any token= entry), each session helper fails with
\* SessionTokenInvalideError and never calls the session lookup.
C2_NoTokenIsSessionTokenInvalide ==
    (session # None /\ (~reqCookie.present \/ ~ContainsTokenEq(reqCookie.value))) =>
        /\ session.threw = "SessionTokenInvalideError"
        /\ session.lookups = <<>>

\* ---- C3 ----
\* C3: after successful creates, each call with n image paths has added
\* exactly its n article_image rows under the new article's id, in the given
\* order, and exactly one article row; the movie table holds exactly one row
\* per movie id used, however many creates used it and however they interleave.
C3_CreateRowCounts ==
    /\ \A p \in Creators :
          pc[p] = "done" =>
              /\ PathsOf(article_image, loc[p].art_id) = loc[p].img_paths
              /\ Cardinality(RowsWith(article, "art_id", loc[p].art_id)) = 1
              /\ loc[p].result.img_paths = loc[p].img_paths
    /\ Len(article) = Cardinality({ p \in Creators : WroteArticle(p) })
    /\ \A m \in MovieIds : Cardinality(RowsWith(movie, "m_id", m)) <= 1
    /\ \A p \in Creators :
          pc[p] = "done" => Cardinality(RowsWith(movie, "m_id", loc[p].m_id)) = 1

\* Two creates of the same movie, two images each, have both succeeded after
\* inserting their images in alternation.
C3_Witness ==
    /\ \A p \in Creators : pc[p] = "done" /\ Len(loc[p].img_paths) = 2
    /\ loc["c1"].m_id = loc["c2"].m_id
    /\ loc["c1"].img_paths # loc["c2"].img_paths
    /\ article_image[1].art_id # article_image[2].art_id
    /\ article_image[2].art_id # article_image[3].art_id

\* ---- C4 ----
\* C4: get(id) throws ArticleInexistantError exactly when its article query
\* finds no row with that id; otherwise it returns an Article whose images are
\* the img_path of all article_image rows with that id, in row order, as they
\* are when the images query runs, whatever create and delete did in between.
C4_GetImagesMatch ==
    [][ /\ (pc[Getter] = "get_query" /\ pc'[Getter] # "get_query") =>
              IF RowsWith(article, "art_id", loc[Getter].id) = {}
              THEN pc'[Getter] = "done" /\ loc'[Getter].threw = "ArticleInexistantError"
              ELSE pc'[Getter] = "get_images" /\ loc'[Getter].threw = "none"
        /\ (pc[Getter] = "get_images" /\ pc'[Getter] = "done") =>
              /\ loc'[Getter].threw = "none"
              /\ loc'[Getter].result.id = loc[Getter].id
              /\ loc'[Getter].result.img_paths = PathsOf(article_image, loc[Getter].id)
      ]_vars

\* A get of the article being created returned between the create's two image
\* inserts, while the other article's image was in the table.
C4_Witness ==
    /\ pc[Getter] = "done"
    /\ loc[Getter].result # None
    /\ loc[Getter].id = 2
    /\ Len(loc[Getter].result.img_paths) = 1
    /\ pc["c1"] # "idle" /\ Len(loc["c1"].img_paths) = 2
    /\ Len(article_image) = 3

\* ---- C5 ----
\* C5: when the cookie header has an entry whose key is exactly token, the
\* token passed to the session lookup is the value of the first such entry.
C5_FirstExactTokenEntry ==
    (session # None /\ reqCookie.present /\ TokenEntries(reqCookie.value) # <<>>) =>
        session.lookups = <<EntryValue(TokenEntries(reqCookie.value)[1])>>

\* ---- C6 ----
\* C6: mostBids returns its articles by descending number of bid rows, and
\* the list is the [offset, offset+limit) slice of that ranking.
C6_MostBidsDescending ==
    mostBidsResult # None =>
        LET arts == mostBidsResult.articles
            ids  == [i \in 1..Len(arts) |-> arts[i].id]
            prm  == mostBidsResult.params
        IN  /\ \A i \in 1..(Len(ids) - 1) :
                  BidCount(bid, ids[i]) >= BidCount(bid, ids[i + 1])
            /\ \E ranking \in BidRankings(bid) :
                  ids = LimitOffset(ranking, OrElse(prm.limit, DefaultLimit), prm.offset)

\* ---- C7 ----
\* The order the claim states for one key: descending, an absent rank last.
NullsLastCmp(a, b) ==
    IF a = {} /\ b = {} THEN 0
    ELSE IF a = {} THEN 1
    ELSE IF b = {} THEN -1
    ELSE IF Val(a) > Val(b) THEN -1
    ELSE IF Val(a) < Val(b) THEN 1
    ELSE 0

NullsLastOrder(a, b) ==
    LET c1 == NullsLastCmp(a.rank_name, b.rank_name)
        c2 == NullsLastCmp(a.rank_description, b.rank_description)
        c3 == NullsLastCmp(a.rank_movie_title, b.rank_movie_title)
        c4 == NullsLastCmp({a.similarity}, {b.similarity})
    IN  IF c1 # 0 THEN c1 ELSE IF c2 # 0 THEN c2 ELSE IF c3 # 0 THEN c3 ELSE c4

\* The row of the FROM clause a returned Article was built from.
SearchRowOf(a) == Ranked(searchRows[a.id])

\* C7: a search other than @all returns its rows by name rank, description
\* rank, title rank, similarity, each descending with an absent rank after
\* every present one; rows without a tsquery match and with similarity <= 0.08
\* never appear.
C7_SearchOrderNullsLast ==
    (searchResult # None /\ searchResult.search # "@all") =>
        LET arts == searchResult.articles
        IN  /\ \A i \in 1..(Len(arts) - 1) :
                  NullsLastOrder(SearchRowOf(arts[i]), SearchRowOf(arts[i + 1])) <= 0
            /\ \A i \in 1..Len(arts) :
                  \/ SearchRowOf(arts[i]).match
                  \/ SearchRowOf(arts[i]).similarity > SimilarityThreshold

\* ---- C8 ----
\* C8: for date1 >= date2, dateDiff returns seconds and minutes in 0..59,
\* hours in 0..23, days >= 0, and the parts recompose to the whole seconds
\* between the two instants.
C8_DateDiffRecomposes ==
    (diff # None /\ date1 >= date2) =>
        /\ diff.sec \in 0..59
        /\ diff.min \in 0..59
        /\ diff.hour \in 0..23
        /\ diff.day >= 0
        /\ ((diff.day * 24 + diff.hour) * 60 + diff.min) * 60 + diff.sec
               = (date1 - date2) \div 1000

\* A difference of a whole number of days plus a sub-second part was decomposed.
C8_Witness ==
    /\ diff # None
    /\ date1 > date2
    /\ diff.day >= 1 /\ diff.hour = 0 /\ diff.min = 59 /\ diff.sec = 59
    /\ (date1 - date2) % 1000 # 0

\* ---- C9 ----
\* The value the claim states: a fragment for each field that is present
\* (Secure for a secure flag that is present and set).
PresentFieldsVal(c) ==
    c.name \o "=" \o c.value \o ";"
    \o (IF c.maxAge # {} THEN " Max-Age=" \o ToString(Val(c.maxAge)) \o ";" ELSE "")
    \o (IF c.secure = {TRUE} THEN " Secure;" ELSE "")
    \o (IF c.path # {} THEN " Path=" \o Val(c.path) \o ";" ELSE "")

\* C9: addCookie appends exactly one Set-Cookie entry and leaves the others
\* unchanged; its value is name=value; followed by Max-Age, Secure, Path in
\* that order, each included if and only if its field is present.
C9_AddCookiePresentFields ==
    [][ headers' # headers =>
            headers' = Append(headers, [name |-> "Set-Cookie",
                                        value |-> PresentFieldsVal(cookie')])
      ]_vars

\* ---- C10 ----
\* C10: a delete that completes leaves no article row and no article_image row
\* with its id; and no step removes image rows of an id while leaving an
\* article row with that id, so an interrupted delete leaves at most image
\* rows without their article.
C10_DeleteArticleFirst ==
    [][ /\ (pc[Deleter] = "delete_images" /\ pc'[Deleter] = "done") =>
              /\ RowsWith(article', "art_id", loc[Deleter].id) = {}
              /\ RowsWith(article_image', "art_id", loc[Deleter].id) = {}
        /\ \A id \in ArticleIds :
              Cardinality(RowsWith(article_image', "art_id", id))
                  < Cardinality(RowsWith(article_image, "art_id", id))
              => RowsWith(article', "art_id", id) = {}
      ]_vars

\* A delete was interrupted after its first statement: the image row is
\* still there, its article row is gone.
C10_Witness ==
    /\ pc[Deleter] = "failed"
    /\ RowsWith(article, "art_id", loc[Deleter].id) = {}
    /\ RowsWith(article_image, "art_id", loc[Deleter].id) # {}

====
